---- MODULE Spec2Model ----
(***************************************************************************)
(* The notebook 01-data-io-and-featurization.ipynb as a state machine.     *)
(*                                                                         *)
(* The state is the namespace of the Jupyter kernel (the global names the  *)
(* code cells bind) together with the featurizer objects those names refer *)
(* to.  There is one action per runnable code cell; a cell whose statement *)
(* raises stops at that statement and keeps the bindings made before it.   *)
(* The plotting handles fig/ax/misc and the temporaries pairs, lbl and     *)
(* score_mapping are not part of the state; of the drawing calls only      *)
(* plot_feature_histograms(..., feature_labels=feat) is recorded.  The     *)
(* #FIXME exercise cells are a SyntaxError: nothing of them is executed.   *)
(* The Timer threads of the widget cells run concurrently with the cells.  *)
(*                                                                         *)
(* PyEMMA, mdshare, numpy and mdtraj are libraries the notebook calls;     *)
(* their results are kept symbolic: a feature matrix is identified by the  *)
(* trajectory file, the topology and the descriptor list that produced it, *)
(* a score by the training and test arguments of the call.                 *)
(***************************************************************************)
EXTENDS Integers, Sequences, FiniteSets, TLC

\* ------------------------------------------------------------------ bounds
\* number of cell executions explored (the kernel's execution counter)
MaxExec == 7
\* number of trajectory files the pentapeptide glob matches
NumPentaFiles == 2

\* --------------------------------------------------------- program constants
\* "three trajectory files": the alanine dipeptide glob
NumAlaFiles == 3
\* get_output(stride=5)
Stride == 5
\* vamp(..., dim=2)
Dim == 2

VARIABLES
  execution_count,              \* In[n] counter of the kernel
  imported,                     \* the import cell has run
  pdb, files,                   \* results of mdshare.fetch
  heap,                         \* featurizer objects
  feat,                         \* global name feat: a reference into heap
  data, data_concatenated,      \* feature matrices
  reader, data_output,          \* streamed reader and its strided output
  score_phi_psi, score_heavy_atoms,
  score_pair_heavy_atom_dists, score_inv_dist,
  last_plot,                    \* the last plot_feature_histograms(..., feature_labels=feat) call
  widget, p,                    \* global names of the widget cells: references into widgets
  widgets,                      \* nglview widgets, each with its TrajectoryPlayer
  timers                        \* threading.Timer objects, one per widget cell execution

scores == <<score_phi_psi, score_heavy_atoms, score_pair_heavy_atom_dists, score_inv_dist>>
wvars == <<widget, p, widgets, timers>>
names == <<imported, pdb, files, heap, feat, data, data_concatenated,
           reader, data_output, score_phi_psi, score_heavy_atoms,
           score_pair_heavy_atom_dists, score_inv_dist, last_plot, wvars>>
vars == <<execution_count, names>>

\* A global name is <<>> while unbound and <<value>> once bound.
Undefined == <<>>
Bound(v) == <<v>>
IsDefined(g) == g # <<>>
Val(g) == g[1]

\* ------------------------------------------------------------ library values
\* mdshare.fetch of a glob: the sorted list of matching files
FetchFiles(ds) ==
  [i \in 1..(IF ds = "alanine-dipeptide" THEN NumAlaFiles ELSE NumPentaFiles)
     |-> <<ds, i>>]

\* One feature matrix: which file, read with which topology and descriptor
\* list, which rows of it.
Matrix(file, top, descs, stride) ==
  [file |-> file, top |-> top, descs |-> descs, rows |-> "all", stride |-> stride]

\* the 'trajectory' array of hmm-doublewell-2d-100k.npz
ToyTrajectory ==
  [py |-> "ndarray", items |-> <<Matrix(<<"hmm-doublewell-2d-100k", 1>>, "none", <<>>, 1)>>]

\* Python data[:-1]
PyButLast(v) ==
  IF v.py = "list"
  THEN [py |-> "list", items |-> SubSeq(v.items, 1, Len(v.items) - 1)]
  ELSE [py |-> v.py, items |-> [i \in 1..Len(v.items) |->
            IF i = Len(v.items) THEN [v.items[i] EXCEPT !.rows = "butlast"]
            ELSE v.items[i]]]

\* Python data[-1] (the caller checks that v is not empty)
PyLast(v) ==
  IF v.py = "list"
  THEN [py |-> "ndarray", items |-> <<v.items[Len(v.items)]>>]
  ELSE [py |-> "ndarray1d", items |-> <<[v.items[Len(v.items)] EXCEPT !.rows = "last"]>>]

\* np.concatenate
Concatenate(v) ==
  IF v.py = "list" THEN [py |-> "ndarray", items |-> v.items]
  ELSE [py |-> "ndarray1d", items |-> v.items]

\* --------------------------------------------------------------- featurizers
Slots == 1..3
NoObject == <<>>

\* pyemma.coordinates.featurizer(pdb): a new object with no descriptor.
\* passed_to_reader records that load() or source() has received the object.
NewFeaturizer(top) == [top |-> top, descs |-> <<>>, passed_to_reader |-> FALSE]

\* objects still referenced by the global names feat and reader
Referenced(f, r) ==
  (IF IsDefined(f) THEN {Val(f)} ELSE {}) \cup
  (IF IsDefined(r) THEN {Val(r).featurizer} ELSE {})

\* reference counting: an object no name refers to is freed
Collect(h, f, r) == [id \in Slots |-> IF id \in Referenced(f, r) THEN h[id] ELSE NoObject]

FreeSlot(h) == CHOOSE id \in Slots : h[id] = NoObject /\ \A j \in Slots : j < id => h[j] # NoObject

Allocate(h, id, top) == [h EXCEPT ![id] = <<NewFeaturizer(top)>>]

\* feat.add_*(...): append one descriptor to the object's list
AddDescriptor(h, id, d) == [h EXCEPT ![id] = <<[h[id][1] EXCEPT !.descs = Append(@, d)]>>]

PassToReader(h, id) == [h EXCEPT ![id] = <<[h[id][1] EXCEPT !.passed_to_reader = TRUE]>>]

\* the matrices load()/get_output() compute: one per file, in file order
FeatureMatrices(fs, obj, stride) ==
  [py |-> "list",
   items |-> [i \in 1..Len(fs) |-> Matrix(fs[i], obj.top, obj.descs, stride)]]

\* The notebook only ever reads files with a featurizer of the same molecule;
\* what the library does otherwise is not fixed by the notebook: it may raise.
MayRaiseOnRead(fs, obj) == \E i \in 1..Len(fs) : fs[i][1] # obj.top

\* vamp(train, dim).score(test_data=test): the call as a symbolic score
Score(train, test) == [train |-> train, test |-> test, dim |-> Dim]

\* the notebook's use: a non-empty list of trajectories. Anything else may raise.
MayRaiseOnScore(train) == train.py # "list" \/ Len(train.items) = 0

\* pyemma.plots.plot_feature_histograms(array, feature_labels=feat): the call,
\* with the array drawn and the description feat gives of its columns
PlotCall(array, obj) ==
  [data |-> array, labels |-> [top |-> obj.top, descs |-> obj.descs]]

Init ==
  /\ execution_count = 0
  /\ imported = FALSE
  /\ pdb = Undefined /\ files = Undefined
  /\ heap = [id \in Slots |-> NoObject]
  /\ feat = Undefined
  /\ data = Undefined /\ data_concatenated = Undefined
  /\ reader = Undefined /\ data_output = Undefined
  /\ score_phi_psi = Undefined /\ score_heavy_atoms = Undefined
  /\ score_pair_heavy_atom_dists = Undefined /\ score_inv_dist = Undefined
  /\ last_plot = Undefined
  /\ widget = Undefined /\ p = Undefined
  /\ widgets = <<>> /\ timers = <<>>

\* a NameError (or library error) in the first statement: nothing is bound
Raises == UNCHANGED names

\* ---------------------------------------------------------------- the cells
\* import cell
Cell01 ==
  /\ imported' = TRUE
  /\ UNCHANGED <<wvars, last_plot, pdb, files, heap, feat, data, data_concatenated, reader, data_output, scores>>

\* Case 1: data = fh['trajectory']
Cell03 ==
  IF ~imported THEN Raises
  ELSE /\ data' = Bound(ToyTrajectory)
       /\ UNCHANGED <<wvars, last_plot, imported, pdb, files, heap, feat, data_concatenated, reader,
                      data_output, scores>>

\* pdb = mdshare.fetch(...); files = mdshare.fetch(...)
FetchCell(ds) ==
  IF ~imported THEN Raises
  ELSE /\ pdb' = Bound(ds)
       /\ files' = Bound(FetchFiles(ds))
       /\ UNCHANGED <<wvars, last_plot, imported, heap, feat, data, data_concatenated, reader,
                      data_output, scores>>

Cell11 == FetchCell("alanine-dipeptide")

Cell55 == FetchCell("pentapeptide")

\* feat = pyemma.coordinates.featurizer(pdb)
Cell15 ==
  IF ~imported \/ ~IsDefined(pdb) THEN Raises
  ELSE LET id == FreeSlot(heap) IN
       /\ feat' = Bound(id)
       /\ heap' = Collect(Allocate(heap, id, Val(pdb)), feat', reader)
       /\ UNCHANGED <<wvars, last_plot, imported, pdb, files, data, data_concatenated, reader,
                      data_output, scores>>

\* data = pyemma.coordinates.load(files, features=feat)
LoadCell ==
  IF ~imported \/ ~IsDefined(files) \/ ~IsDefined(feat) THEN Raises
  ELSE LET obj == heap[Val(feat)][1] IN
       /\ heap' = PassToReader(heap, Val(feat))
       /\ \E raised \in {FALSE} \cup {MayRaiseOnRead(Val(files), obj)} :
            data' = IF raised THEN data
                    ELSE Bound(FeatureMatrices(Val(files), obj, 1))
       /\ UNCHANGED <<wvars, last_plot, imported, pdb, files, feat, data_concatenated, reader,
                      data_output, scores>>

Cell17 == LoadCell

Cell21 == LoadCell

\* Cell19 without its first line: the descriptor is added to the object the
\* name feat already refers to.
Cell19_reuses_feat ==
  IF ~imported \/ ~IsDefined(pdb) \/ ~IsDefined(feat) THEN Raises
  ELSE LET d == [method |-> "add_backbone_torsions", args |-> "periodic=False"] IN
       /\ heap' = AddDescriptor(heap, Val(feat), d)
       /\ UNCHANGED <<wvars, last_plot, imported, pdb, files, feat, data, data_concatenated, reader,
                      data_output, scores>>

\* feat = featurizer(pdb); feat.add_backbone_torsions(periodic=False)
Cell19 ==
  IF ~imported \/ ~IsDefined(pdb) THEN Raises
  ELSE LET id == FreeSlot(heap)
           d  == [method |-> "add_backbone_torsions", args |-> "periodic=False"] IN
       /\ feat' = Bound(id)
       /\ heap' = Collect(AddDescriptor(Allocate(heap, id, Val(pdb)), id, d), feat', reader)
       /\ UNCHANGED <<wvars, last_plot, imported, pdb, files, data, data_concatenated, reader,
                      data_output, scores>>

\* data_concatenated = np.concatenate(data)
\* plot_feature_histograms(data_concatenated, feature_labels=feat)
Cell25 ==
  IF ~imported \/ ~IsDefined(data) THEN Raises
  ELSE /\ data_concatenated' = Bound(Concatenate(Val(data)))
       /\ last_plot' = IF IsDefined(feat)
                       THEN Bound(PlotCall(Val(data_concatenated'), heap[Val(feat)][1]))
                       ELSE last_plot
       /\ UNCHANGED <<wvars, imported, pdb, files, heap, feat, data, reader, data_output, scores>>

\* The cells of the form
\*   feat = featurizer(pdb); feat.add_...(...); data = load(files, features=feat)
\* optionally followed by data_concatenated = np.concatenate(data) and by
\* plot_feature_histograms(<concatenated data>, feature_labels=feat).
FeaturizeAndLoad(descs, concat, plot) ==
  IF ~imported \/ ~IsDefined(pdb) THEN Raises
  ELSE LET id == FreeSlot(heap)
           h0 == Allocate(heap, id, Val(pdb))
           h1 == IF Len(descs) >= 1 THEN AddDescriptor(h0, id, descs[1]) ELSE h0
           h2 == IF Len(descs) >= 2 THEN AddDescriptor(h1, id, descs[2]) ELSE h1
       IN
       /\ feat' = Bound(id)
       /\ IF ~IsDefined(files)
          THEN /\ heap' = Collect(h2, feat', reader)
               /\ UNCHANGED <<data, data_concatenated, last_plot>>
          ELSE /\ heap' = Collect(PassToReader(h2, id), feat', reader)
               /\ \E raised \in {FALSE} \cup {MayRaiseOnRead(Val(files), h2[id][1])} :
                    /\ data' = IF raised THEN data
                               ELSE Bound(FeatureMatrices(Val(files), h2[id][1], 1))
                    /\ data_concatenated' = IF raised \/ ~concat THEN data_concatenated
                                            ELSE Bound(Concatenate(Val(data')))
                    /\ last_plot' = IF raised \/ ~plot THEN last_plot
                                    ELSE Bound(PlotCall(Concatenate(Val(data')), h2[id][1]))
       /\ UNCHANGED <<wvars, imported, pdb, files, reader, data_output, scores>>

\* A cell of that form whose load() line is missing: feat is rebound, data is not.
FeaturizeOnly(descs) ==
  IF ~imported \/ ~IsDefined(pdb) THEN Raises
  ELSE LET id == FreeSlot(heap) IN
       /\ feat' = Bound(id)
       /\ heap' = Collect(AddDescriptor(Allocate(heap, id, Val(pdb)), id, descs[1]),
                          feat', reader)
       /\ UNCHANGED <<wvars, last_plot, imported, pdb, files, data, data_concatenated,
                      reader, data_output, scores>>

Cell31_without_load ==
  FeaturizeOnly(<<[method |-> "add_selection", args |-> "select_Heavy()"]>>)

Cell49_without_load ==
  FeaturizeOnly(<<[method |-> "add_inverse_distances", args |-> "pairs(select_Heavy())"]>>)

Cell31 == FeaturizeAndLoad(<<[method |-> "add_selection", args |-> "select_Heavy()"]>>, FALSE, FALSE)

Cell37 == FeaturizeAndLoad(<<[method |-> "add_distances",
                              args |-> "pairs(select_Heavy()), periodic=False"]>>, FALSE, FALSE)

Cell49 == FeaturizeAndLoad(<<[method |-> "add_inverse_distances",
                              args |-> "pairs(select_Heavy())"]>>, FALSE, TRUE)

Cell59 == FeaturizeAndLoad(<<[method |-> "add_backbone_torsions",
                              args |-> "cossin=True, periodic=False"],
                             [method |-> "add_sidechain_torsions",
                              args |-> "which='chi1', cossin=True, periodic=False"]>>, TRUE, FALSE)

Cell65 == FeaturizeAndLoad(<<[method |-> "add_distances_ca", args |-> "periodic=False"]>>, TRUE, TRUE)

Cell69 == FeaturizeAndLoad(<<[method |-> "add_residue_mindist", args |-> "periodic=False"]>>, TRUE, TRUE)

Cell73 == FeaturizeAndLoad(<<[method |-> "add_selection", args |-> "select_Backbone()"]>>, TRUE, TRUE)

Cell77 == FeaturizeAndLoad(<<[method |-> "add_selection", args |-> "select_Ca()"]>>, TRUE, TRUE)

\* reader = pyemma.coordinates.source(files, features=feat)
Cell41 ==
  IF ~imported \/ ~IsDefined(files) \/ ~IsDefined(feat) THEN Raises
  ELSE \E raised \in {FALSE} \cup {MayRaiseOnRead(Val(files), heap[Val(feat)][1])} :
       /\ reader' = IF raised THEN reader
                    ELSE Bound([files |-> Val(files), featurizer |-> Val(feat)])
       /\ heap' = Collect(PassToReader(heap, Val(feat)), feat, reader')
       /\ UNCHANGED <<wvars, last_plot, imported, pdb, files, feat, data, data_concatenated,
                      data_output, scores>>

\* data_output = reader.get_output(stride=5)
Cell43 ==
  IF ~imported \/ ~IsDefined(reader) THEN Raises
  ELSE LET obj == heap[Val(reader).featurizer][1] IN
       /\ \E raised \in {FALSE} \cup {MayRaiseOnRead(Val(reader).files, obj)} :
            data_output' = IF raised THEN data_output
                           ELSE Bound(FeatureMatrices(Val(reader).files, obj, Stride))
       /\ UNCHANGED <<wvars, last_plot, imported, pdb, files, heap, feat, data, data_concatenated,
                      reader, scores>>

\* <score> = pyemma.coordinates.vamp(train, dim=2).score(test_data=test)
\* The value bound to the score name, or the old binding when the call raises.
ScoreOutcomes(old, train, test) ==
  {Bound(Score(train, test))} \cup (IF MayRaiseOnScore(train) THEN {old} ELSE {})

\* score_phi_psi: trained on data[:-1], tested on data[-1]
Cell27 ==
  IF ~imported \/ ~IsDefined(data) THEN Raises
  ELSE /\ score_phi_psi' \in
            ScoreOutcomes(score_phi_psi, PyButLast(Val(data)), PyLast(Val(data)))
       /\ UNCHANGED <<wvars, last_plot, imported, pdb, files, heap, feat, data, data_concatenated, reader,
                      data_output, score_heavy_atoms, score_pair_heavy_atom_dists,
                      score_inv_dist>>

\* score_heavy_atoms: trained on data[:-1], tested on data[:-1]
Cell35 ==
  IF ~imported \/ ~IsDefined(data) THEN Raises
  ELSE /\ score_heavy_atoms' \in
            ScoreOutcomes(score_heavy_atoms, PyButLast(Val(data)), PyButLast(Val(data)))
       /\ UNCHANGED <<wvars, last_plot, imported, pdb, files, heap, feat, data, data_concatenated, reader,
                      data_output, score_phi_psi, score_pair_heavy_atom_dists,
                      score_inv_dist>>

\* score_pair_heavy_atom_dists: trained on data[:-1], tested on data[-1]
Cell39 ==
  IF ~imported \/ ~IsDefined(data) THEN Raises
  ELSE /\ score_pair_heavy_atom_dists' \in
            ScoreOutcomes(score_pair_heavy_atom_dists, PyButLast(Val(data)), PyLast(Val(data)))
       /\ UNCHANGED <<wvars, last_plot, imported, pdb, files, heap, feat, data, data_concatenated, reader,
                      data_output, score_phi_psi, score_heavy_atoms, score_inv_dist>>

\* score_inv_dist: trained on data[:-1], tested on data[-1]
Cell53 ==
  IF ~imported \/ ~IsDefined(data) THEN Raises
  ELSE /\ score_inv_dist' \in
            ScoreOutcomes(score_inv_dist, PyButLast(Val(data)), PyLast(Val(data)))
       /\ UNCHANGED <<wvars, last_plot, imported, pdb, files, heap, feat, data, data_concatenated, reader,
                      data_output, score_phi_psi, score_heavy_atoms,
                      score_pair_heavy_atom_dists>>

\* fig, ax = plt.subplots(...); plot_feature_histograms(<array>, feature_labels=feat)
PlotCell(array) ==
  IF ~imported \/ ~IsDefined(array) \/ ~IsDefined(feat) THEN Raises
  ELSE /\ last_plot' = Bound(PlotCall(Val(array), heap[Val(feat)][1]))
       /\ UNCHANGED <<wvars, imported, pdb, files, heap, feat, data, data_concatenated,
                      reader, data_output, scores>>

\* plot_feature_histograms(np.concatenate(data), feature_labels=feat, ax=ax)
Cell33 == PlotCell(IF IsDefined(data) THEN Bound(Concatenate(Val(data))) ELSE Undefined)

\* plot_feature_histograms(np.concatenate(data_output), feature_labels=feat, ax=ax)
Cell45 == PlotCell(IF IsDefined(data_output) THEN Bound(Concatenate(Val(data_output)))
                   ELSE Undefined)

\* plot_feature_histograms(data_concatenated, feature_labels=feat, ax=ax)
Cell61 == PlotCell(data_concatenated)

\* Cells that draw or print and bind none of the names above: the toy model's
\* histograms (labels '$x$', '$y$'), plot_density, plot_free_energy, describe()
DrawOnly == UNCHANGED names

Cell05 == DrawOnly

Cell07 == DrawOnly

Cell09 == DrawOnly

Cell23 == DrawOnly

Cell29 == DrawOnly

\* ------------------------------------------------------- widgets and timers
\* widget = nglview.show_mdtraj(mdtraj.load(pdb)); p = TrajectoryPlayer(widget)
\* p.spin = True; def stop_spin(): ...; Timer(30, stop_spin).start()
WidgetCell ==
  IF ~imported \/ ~IsDefined(pdb) THEN Raises
  ELSE /\ widgets' = Append(widgets, [molecule |-> Val(pdb), spin |-> TRUE, closed |-> FALSE])
       /\ widget' = Bound(Len(widgets) + 1)
       /\ p' = Bound(Len(widgets) + 1)
       /\ timers' = Append(timers, "started")
       /\ UNCHANGED <<imported, pdb, files, heap, feat, data, data_concatenated,
                      reader, data_output, scores, last_plot>>

Cell13 == WidgetCell

Cell57 == WidgetCell

\* The timers wait the same interval: they expire in the order they were started.
Expires(i) == timers[i] = "started" /\ \A j \in 1..(i - 1) : timers[j] # "started"

\* timer thread, first statement of stop_spin: p.spin = False
\* (p is the global name, looked up when the statement runs)
stop_spin ==
  \E i \in 1..Len(timers) :
    /\ Expires(i)
    /\ timers' = [timers EXCEPT ![i] = "in stop_spin"]
    /\ widgets' = [widgets EXCEPT ![Val(p)].spin = FALSE]
    /\ UNCHANGED <<execution_count, imported, pdb, files, heap, feat, data,
                   data_concatenated, reader, data_output, scores, last_plot, widget, p>>

\* timer thread, second statement of stop_spin: widget.close()
\* (widget is the global name, looked up when the statement runs)
stop_spin_close ==
  \E i \in 1..Len(timers) :
    /\ timers[i] = "in stop_spin"
    /\ timers' = [timers EXCEPT ![i] = "finished"]
    /\ widgets' = [widgets EXCEPT ![Val(widget)].closed = TRUE]
    /\ UNCHANGED <<execution_count, imported, pdb, files, heap, feat, data,
                   data_concatenated, reader, data_output, scores, last_plot, widget, p>>

\* Shift-Enter on a cell: the kernel counts the execution, also when it raises
Execute(cell) ==
  /\ execution_count < MaxExec
  /\ execution_count' = execution_count + 1
  /\ cell

\* the cells of the featurization workflow may be executed in any order, any
\* number of times
Next ==
  \/ Execute(Cell01) \/ Execute(Cell03) \/ Execute(Cell11) \/ Execute(Cell15)
  \/ Execute(Cell17) \/ Execute(Cell19) \/ Execute(Cell21) \/ Execute(Cell25)
  \/ Execute(Cell27) \/ Execute(Cell31) \/ Execute(Cell35) \/ Execute(Cell37)
  \/ Execute(Cell39) \/ Execute(Cell41) \/ Execute(Cell43) \/ Execute(Cell49)
  \/ Execute(Cell53) \/ Execute(Cell55) \/ Execute(Cell59) \/ Execute(Cell65)
  \/ Execute(Cell69) \/ Execute(Cell73) \/ Execute(Cell77)
  \/ Execute(Cell33) \/ Execute(Cell45) \/ Execute(Cell61)

Spec == Init /\ [][Next]_vars

\* The widget cells, executed and re-executed in any order while the timer
\* threads of earlier executions run.
NextWidgets ==
  \/ Execute(Cell01) \/ Execute(Cell11) \/ Execute(Cell55)
  \/ Execute(Cell13) \/ Execute(Cell57)
  \/ stop_spin \/ stop_spin_close

SpecWidgets == Init /\ [][NextWidgets]_vars

\* "Run All" on a fresh kernel: the runnable cells from top to bottom (the
\* #FIXME exercise cells are skipped, the solution cells are executed); the
\* n-th of them runs when n-1 executions have been counted.
RunCell(n, cell) ==
  /\ execution_count = n - 1
  /\ execution_count' = n
  /\ cell

NextRunAll ==
  \/ RunCell(1, Cell01)  \/ RunCell(2, Cell03)  \/ RunCell(3, Cell05)
  \/ RunCell(4, Cell07)  \/ RunCell(5, Cell09)  \/ RunCell(6, Cell11)
  \/ RunCell(7, Cell13)  \/ RunCell(8, Cell15)  \/ RunCell(9, Cell17)
  \/ RunCell(10, Cell19) \/ RunCell(11, Cell21) \/ RunCell(12, Cell23)
  \/ RunCell(13, Cell25) \/ RunCell(14, Cell27) \/ RunCell(15, Cell29)
  \/ RunCell(16, Cell31) \/ RunCell(17, Cell33) \/ RunCell(18, Cell35)
  \/ RunCell(19, Cell37) \/ RunCell(20, Cell39) \/ RunCell(21, Cell41)
  \/ RunCell(22, Cell43) \/ RunCell(23, Cell45) \/ RunCell(24, Cell49)
  \/ RunCell(25, Cell53) \/ RunCell(26, Cell55) \/ RunCell(27, Cell57)
  \/ RunCell(28, Cell59) \/ RunCell(29, Cell61) \/ RunCell(30, Cell65)
  \/ RunCell(31, Cell69) \/ RunCell(32, Cell73) \/ RunCell(33, Cell77)
  \/ stop_spin \/ stop_spin_close

SpecRunAll == Init /\ [][NextRunAll]_vars

\* ------------------------------------------------------------------ claims
Range(seq) == {seq[i] : i \in 1..Len(seq)}

BoundScores ==
  {Val(s) : s \in {g \in {score_phi_psi, score_heavy_atoms,
                          score_pair_heavy_atom_dists, score_inv_dist} : IsDefined(g)}}

\* C1: in every VAMP scoring call the test set is disjoint from the training
\* set: no feature matrix (and no row of one) given to vamp() for training is
\* also given to score() as test data.
C1_TestDisjointFromTraining ==
  \A s \in BoundScores : Range(s.train.items) \cap Range(s.test.items) = {}

\* C5: the descriptor list of a featurizer object that has been passed to
\* load() or source() never changes afterwards, whatever cell is executed.
C5_DescriptorsFrozen ==
  [][\A id \in Slots :
       (heap[id] # NoObject /\ heap[id][1].passed_to_reader /\ heap'[id] # NoObject)
         => heap'[id][1].descs = heap[id][1].descs]_vars

\* C5 witness: a reader holds a featurizer that source() received, and a cell
\* executed later has added descriptors - to another, fresh object.
C5_Witness ==
  /\ IsDefined(reader) /\ IsDefined(feat)
  /\ Val(feat) # Val(reader).featurizer
  /\ heap[Val(reader).featurizer][1].passed_to_reader
  /\ heap[Val(reader).featurizer][1].descs # <<>>
  /\ heap[Val(feat)][1].descs # <<>>
  /\ heap[Val(feat)][1].descs # heap[Val(reader).featurizer][1].descs

\* C16: once the stop_spin of a timer has run, the widget created by the cell
\* execution that started this timer is closed and its player no longer
\* spins; every widget cell execution has started exactly one timer.
C16_TimerClosesItsWidget ==
  /\ Len(timers) = Len(widgets)
  /\ \A i \in 1..Len(timers) :
       timers[i] = "finished" => (widgets[i].closed /\ ~widgets[i].spin)

\* C17: a widget whose own timer has not expired yet is neither stopped nor
\* closed by the timer of an earlier cell execution.
C17_OnlyOwnTimerClosesWidget ==
  \A i \in 1..Len(timers) :
    timers[i] = "started" => (~widgets[i].closed /\ widgets[i].spin)

\* the featurizer description and every matrix drawn come from one featurization
PlotConsistent(call) ==
  \A m \in Range(call.data.items) :
    m.top = call.labels.top /\ m.descs = call.labels.descs

\* C18: in a top-to-bottom run, every plot_feature_histograms call that passes
\* feature_labels=feat draws data produced with the featurizer feat refers to,
\* and the reader is created with the featurizer that produced the data loaded
\* last.
C18_FeatDescribesPlottedData ==
  [][/\ (last_plot' # last_plot) => PlotConsistent(Val(last_plot'))
     /\ (reader' # reader) =>
          /\ Val(reader').featurizer = Val(feat')
          /\ \A m \in Range(Val(data').items) :
               /\ m.top = heap'[Val(feat')][1].top
               /\ m.descs = heap'[Val(feat')][1].descs]_vars

\* C18 witness: the strided reader output has been drawn with feature_labels=feat
C18_Witness ==
  /\ IsDefined(reader) /\ IsDefined(data_output) /\ IsDefined(last_plot)
  /\ Val(last_plot).data = Concatenate(Val(data_output))
  /\ PlotConsistent(Val(last_plot))

\* the score is bound to a call whose training and test matrices were all
\* computed from alanine dipeptide with exactly the descriptor d
ComputedFrom(score, d) ==
  IsDefined(score) =>
    /\ Val(score).train.items # <<>>
    /\ \A m \in Range(Val(score).train.items) \cup Range(Val(score).test.items) :
         /\ m.file[1] = "alanine-dipeptide" /\ m.top = "alanine-dipeptide"
         /\ m.descs = <<d>>

\* C19: in a top-to-bottom run each score is computed from the matrices of the
\* featurization it is named after.
C19_ScoresNamedAfterTheirData ==
  /\ ComputedFrom(score_phi_psi,
                  [method |-> "add_backbone_torsions", args |-> "periodic=False"])
  /\ ComputedFrom(score_heavy_atoms,
                  [method |-> "add_selection", args |-> "select_Heavy()"])
  /\ ComputedFrom(score_pair_heavy_atom_dists,
                  [method |-> "add_distances", args |-> "pairs(select_Heavy()), periodic=False"])
  /\ ComputedFrom(score_inv_dist,
                  [method |-> "add_inverse_distances", args |-> "pairs(select_Heavy())"])

\* C19 witness: the four scores of the bar chart are bound
C19_Witness ==
  /\ IsDefined(score_phi_psi) /\ IsDefined(score_heavy_atoms)
  /\ IsDefined(score_pair_heavy_atom_dists) /\ IsDefined(score_inv_dist)

====
